---- MODULE Spec2Model ----
(***************************************************************************)
(* Model of pkg/controller/infrastructure/configvalidator.go:              *)
(* configValidator.Validate and configValidator.validateVPC.               *)
(*                                                                         *)
(* One Validate call is a sequential process.  Its position (pc) advances  *)
(* at each call to an external collaborator: the config extractor, the     *)
(* credential resolver, the AWS client factory and the AWS client.  The    *)
(* answer of the collaborator is drawn nondeterministically at that step.  *)
(* `calls' and `setup' record what the collaborators were asked, in order  *)
(* (what the gomock expectations of configvalidator_test.go observe).      *)
(***************************************************************************)
EXTENDS Integers, Sequences, FiniteSets, TLC

VARIABLES pc, config, attrIdx, allErrs, vpcErrs, calls, setup

vars == <<pc, config, attrIdx, allErrs, vpcErrs, calls, setup>>

----------------------------------------------------------------------------
(* Bounds of the model *)

\* number of distinct VPC identifiers a declared configuration may carry
NumVpcIDs == 2

\* number of distinct unclassified error messages a collaborator may return
NumOtherErrs == 2

----------------------------------------------------------------------------
(* Values *)

\* Go's nil (a nil *string, a nil error, a nil *field.Path, a nil BadValue)
Nil == "<nil>"

AllVpcIDs == <<"vpc-123456", "vpc-abcdef", "vpc-000000", "vpc-ffffff">>

VpcIDs == {AllVpcIDs[i] : i \in 1..NumVpcIDs}

\* the error code the AWS SDK returns for a VPC that does not exist
NotFoundErr == "InvalidVpcID.NotFound"

AllOtherErrs == <<"test", "RequestLimitExceeded", "timeout">>

OtherErrs == {AllOtherErrs[i] : i \in 1..NumOtherErrs}

\* the errors a cloud query may return, nil included
Errors == {Nil, NotFoundErr} \cup OtherErrs

\* the identifiers GetVPCInternetGateway may return; "" is "none attached"
GatewayIDs == {"", "igw-1"}

\* the nil *InfrastructureConfig returned with a decoding error
NilConfig == [nil |-> TRUE]

\* awsclient.IsNotFoundError: the classification predicate of the client
IsNotFoundError(err) == err = NotFoundErr

\* field.NewPath("networks", "vpc", "id").String()
fldPathVPCID == "networks.vpc.id"

----------------------------------------------------------------------------
(* Findings: k8s.io/apimachinery field.Error{Type, Field, BadValue, Detail} *)
(* A detail produced by a format string is the sequence of its pieces.      *)

NotFound(fldPath, value) ==
    [Type |-> "NotFound", Field |-> fldPath, BadValue |-> value, Detail |-> <<>>]

Invalid(fldPath, value, detail) ==
    [Type |-> "Invalid", Field |-> fldPath, BadValue |-> value, Detail |-> detail]

InternalError(fldPath, err) ==
    [Type |-> "Internal", Field |-> fldPath, BadValue |-> Nil, Detail |-> err]

\* variant: the two attributes are checked in the other order
Attributes_Swapped == <<"enableDnsHostnames", "enableDnsSupport">>

\* the loop range of validateVPC
Attributes == <<"enableDnsSupport", "enableDnsHostnames">>

\* variant: the message does not name the attribute
AttributeErrDetail_NoAttribute(attribute, vpcID, err) ==
    <<"could not get VPC attribute for VPC ", vpcID, ": ", err>>

\* fmt.Errorf("could not get VPC attribute %s for VPC %s: %w", ...)
AttributeErrDetail(attribute, vpcID, err) ==
    <<"could not get VPC attribute ", attribute, " for VPC ", vpcID, ": ", err>>

\* fmt.Sprintf("VPC attribute %s must be set to true", attribute)
AttributeInvalidDetail(attribute) ==
    <<"VPC attribute ", attribute, " must be set to true">>

\* fmt.Errorf("could not get internet gateway for VPC %s: %w", vpcID, err)
GatewayErrDetail(vpcID, err) ==
    <<"could not get internet gateway for VPC ", vpcID, ": ", err>>

NoGatewayDetail == <<"no attached internet gateway found">>

\* variant: the error is not classified
AttributeErrFinding_Unclassified(fldPath, attribute, vpcID, err) ==
    InternalError(fldPath, AttributeErrDetail(attribute, vpcID, err))

\* the finding for a failed attribute fetch
AttributeErrFinding(fldPath, attribute, vpcID, err) ==
    IF IsNotFoundError(err)
    THEN NotFound(fldPath, vpcID)
    ELSE InternalError(fldPath, AttributeErrDetail(attribute, vpcID, err))

\* variant: the test of the value is inverted
AttributeValueErrs_Inverted(errs, fldPath, attribute, vpcID, value) ==
    IF value
    THEN Append(errs, Invalid(fldPath, vpcID, AttributeInvalidDetail(attribute)))
    ELSE errs

\* variant: the finding replaces the list instead of being appended to it
AttributeValueErrs_Overwrite(errs, fldPath, attribute, vpcID, value) ==
    IF ~value
    THEN <<Invalid(fldPath, vpcID, AttributeInvalidDetail(attribute))>>
    ELSE errs

\* the findings after a successful attribute fetch
AttributeValueErrs(errs, fldPath, attribute, vpcID, value) ==
    IF ~value
    THEN Append(errs, Invalid(fldPath, vpcID, AttributeInvalidDetail(attribute)))
    ELSE errs

\* variant: the error is classified as it is for an attribute fetch
GatewayErrFinding_Classified(fldPath, vpcID, err) ==
    IF IsNotFoundError(err)
    THEN NotFound(fldPath, vpcID)
    ELSE InternalError(fldPath, GatewayErrDetail(vpcID, err))

\* the finding for a failed gateway fetch
GatewayErrFinding(fldPath, vpcID, err) ==
    InternalError(fldPath, GatewayErrDetail(vpcID, err))

\* variant: the returned identifier is not examined
GatewayValueErrs_NoCheck(errs, fldPath, vpcID, internetGatewayID) == errs

\* the findings after a successful gateway fetch
GatewayValueErrs(errs, fldPath, vpcID, internetGatewayID) ==
    IF internetGatewayID = ""
    THEN Append(errs, Invalid(fldPath, vpcID, NoGatewayDetail))
    ELSE errs

----------------------------------------------------------------------------
(* Records of what the collaborators were asked *)

SetupCall(step, err) == [step |-> step, err |-> err]

AttributeCall(vpcID, attribute, value, err) ==
    [op |-> "GetVPCAttribute", vpcID |-> vpcID, attribute |-> attribute,
     value |-> value, internetGatewayID |-> "", err |-> err]

GatewayCall(vpcID, internetGatewayID, err) ==
    [op |-> "GetVPCInternetGateway", vpcID |-> vpcID, attribute |-> "",
     value |-> FALSE, internetGatewayID |-> internetGatewayID, err |-> err]

----------------------------------------------------------------------------
(* The state after NewConfigValidator: no call is running *)

Init ==
    /\ pc = "idle"
    /\ config = NilConfig
    /\ attrIdx = 1
    /\ allErrs = <<>>
    /\ vpcErrs = <<>>
    /\ calls = <<>>
    /\ setup = <<>>

\* variant: the identifier is used without the nil test
VPCDeclared_Always(cfg) == TRUE

\* config.Networks.VPC.ID != nil
VPCDeclared(cfg) == cfg.VPCID # Nil

\* Validate returns errs as its report
ReturnFromValidate(errs) ==
    /\ allErrs' = errs
    /\ pc' = "done"

\* validateVPC returns errs, Validate appends them to allErrs and returns
ReturnFromValidateVPC(errs) ==
    /\ vpcErrs' = errs
    /\ ReturnFromValidate(allErrs \o errs)

\* Validate, up to the answer of helper.InfrastructureConfigFromInfrastructure
Validate ==
    /\ pc \in {"idle", "done"}
    /\ \E id \in VpcIDs \cup {Nil}, err \in {Nil} \cup OtherErrs :
          /\ setup' = <<SetupCall("InfrastructureConfigFromInfrastructure", err)>>
          /\ calls' = <<>>
          /\ vpcErrs' = <<>>
          /\ attrIdx' = 1
          /\ IF err # Nil
             THEN /\ config' = NilConfig
                  /\ ReturnFromValidate(<<InternalError(Nil, <<err>>)>>)
             ELSE /\ config' = [VPCID |-> id]
                  /\ allErrs' = <<>>
                  /\ pc' = "GetCredentialsFromSecretRef"

\* variant: the return after the credentials error is missing
GetCredentialsFromSecretRef_NoReturn ==
    /\ pc = "GetCredentialsFromSecretRef"
    /\ \E err \in {Nil} \cup OtherErrs :
          /\ setup' = Append(setup, SetupCall("GetCredentialsFromSecretRef", err))
          /\ allErrs' = IF err # Nil
                        THEN Append(allErrs, InternalError(Nil, <<"could not get AWS credentials: ", err>>))
                        ELSE allErrs
          /\ pc' = "NewClient"
          /\ UNCHANGED <<config, attrIdx, vpcErrs, calls>>

\* Validate, from the answer of aws.GetCredentialsFromSecretRef
GetCredentialsFromSecretRef ==
    /\ pc = "GetCredentialsFromSecretRef"
    /\ \E err \in {Nil} \cup OtherErrs :
          /\ setup' = Append(setup, SetupCall("GetCredentialsFromSecretRef", err))
          /\ IF err # Nil
             THEN ReturnFromValidate(
                      Append(allErrs, InternalError(Nil, <<"could not get AWS credentials: ", err>>)))
             ELSE /\ allErrs' = allErrs
                  /\ pc' = "NewClient"
          /\ UNCHANGED <<config, attrIdx, vpcErrs, calls>>

\* Validate, from the answer of awsClientFactory.NewClient to the first
\* cloud query of validateVPC, or to the return when no VPC is declared
NewClient ==
    /\ pc = "NewClient"
    /\ \E err \in {Nil} \cup OtherErrs :
          /\ setup' = Append(setup, SetupCall("NewClient", err))
          /\ IF err # Nil
             THEN ReturnFromValidate(
                      Append(allErrs, InternalError(Nil, <<"could not create AWS client: ", err>>)))
             ELSE IF VPCDeclared(config)
                  THEN /\ allErrs' = allErrs
                       /\ pc' = "GetVPCAttribute"
                  ELSE ReturnFromValidate(allErrs)
          /\ UNCHANGED <<config, attrIdx, vpcErrs, calls>>

\* variant: the return after a failed attribute fetch is missing
GetVPCAttribute_NoReturn ==
    /\ pc = "GetVPCAttribute"
    /\ \E value \in BOOLEAN, err \in Errors :
          LET attribute == Attributes[attrIdx]
              vpcID == config.VPCID
          IN  /\ calls' = Append(calls, AttributeCall(vpcID, attribute, value, err))
              /\ vpcErrs' =
                    IF err # Nil
                    THEN Append(vpcErrs, AttributeErrFinding(fldPathVPCID, attribute, vpcID, err))
                    ELSE AttributeValueErrs(vpcErrs, fldPathVPCID, attribute, vpcID, value)
              /\ allErrs' = allErrs
              /\ IF attrIdx < Len(Attributes)
                 THEN /\ attrIdx' = attrIdx + 1
                      /\ pc' = "GetVPCAttribute"
                 ELSE /\ attrIdx' = attrIdx
                      /\ pc' = "GetVPCInternetGateway"
    /\ UNCHANGED <<config, setup>>

\* validateVPC: one iteration of the attribute loop
GetVPCAttribute ==
    /\ pc = "GetVPCAttribute"
    /\ \E value \in BOOLEAN, err \in Errors :
          LET attribute == Attributes[attrIdx]
              vpcID == config.VPCID
          IN  /\ calls' = Append(calls, AttributeCall(vpcID, attribute, value, err))
              /\ IF err # Nil
                 THEN /\ ReturnFromValidateVPC(
                             Append(vpcErrs, AttributeErrFinding(fldPathVPCID, attribute, vpcID, err)))
                      /\ UNCHANGED attrIdx
                 ELSE /\ vpcErrs' = AttributeValueErrs(vpcErrs, fldPathVPCID, attribute, vpcID, value)
                      /\ allErrs' = allErrs
                      /\ IF attrIdx < Len(Attributes)
                         THEN /\ attrIdx' = attrIdx + 1
                              /\ pc' = "GetVPCAttribute"
                         ELSE /\ attrIdx' = attrIdx
                              /\ pc' = "GetVPCInternetGateway"
    /\ UNCHANGED <<config, setup>>

\* validateVPC: the internet gateway check, and the return of Validate
GetVPCInternetGateway ==
    /\ pc = "GetVPCInternetGateway"
    /\ \E internetGatewayID \in GatewayIDs, err \in Errors :
          LET vpcID == config.VPCID
          IN  /\ calls' = Append(calls, GatewayCall(vpcID, internetGatewayID, err))
              /\ IF err # Nil
                 THEN ReturnFromValidateVPC(
                          Append(vpcErrs, GatewayErrFinding(fldPathVPCID, vpcID, err)))
                 ELSE ReturnFromValidateVPC(
                          GatewayValueErrs(vpcErrs, fldPathVPCID, vpcID, internetGatewayID))
    /\ UNCHANGED <<config, attrIdx, setup>>

Next ==
    \/ Validate
    \/ GetCredentialsFromSecretRef
    \/ NewClient
    \/ GetVPCAttribute
    \/ GetVPCInternetGateway

Spec == Init /\ [][Next]_vars

----------------------------------------------------------------------------
(* Vocabulary of the properties *)

Done == pc = "done"

\* the indices of the findings of a given type in a report
OfType(errs, type) == {i \in DOMAIN errs : errs[i].Type = type}

\* the indices of the findings of a report with a given detail
WithDetail(errs, detail) == {i \in DOMAIN errs : errs[i].Detail = detail}

\* the pieces of a formatted detail
Pieces(detail) == {detail[i] : i \in DOMAIN detail}

SetupFailed == \E i \in DOMAIN setup : setup[i].err # Nil

\* the configuration was decoded and declares no VPC identifier
NoVPCDeclared == config # NilConfig /\ config.VPCID = Nil

\* query i was an attribute fetch that failed
AttributeFetchFailed(i) == calls[i].op = "GetVPCAttribute" /\ calls[i].err # Nil

\* query i returned an error, or a value that disagrees with the expectation
ProbeFailed(i) ==
    \/ calls[i].err # Nil
    \/ calls[i].op = "GetVPCAttribute" /\ calls[i].value = FALSE
    \/ calls[i].op = "GetVPCInternetGateway" /\ calls[i].internetGatewayID = ""

\* both attribute fetches succeeded
BothAttributesFetched ==
    /\ Len(calls) >= 2
    /\ calls[1].err = Nil
    /\ calls[2].err = Nil

BothAttributesFalse ==
    /\ BothAttributesFetched
    /\ calls[1].value = FALSE
    /\ calls[2].value = FALSE

\* all three queries were issued and none failed
NoFetchFailed ==
    /\ Len(calls) = 3
    /\ \A i \in 1..3 : calls[i].err = Nil

\* the Invalid finding for a false attribute of the declared VPC
AttributeInvalid(attribute) ==
    [Type |-> "Invalid", Field |-> "networks.vpc.id", BadValue |-> config.VPCID,
     Detail |-> <<"VPC attribute ", attribute, " must be set to true">>]

\* the Invalid finding for a missing internet gateway of the declared VPC
GatewayInvalid ==
    [Type |-> "Invalid", Field |-> "networks.vpc.id", BadValue |-> config.VPCID,
     Detail |-> <<"no attached internet gateway found">>]

----------------------------------------------------------------------------
(* C1 *)

\* C1 (as stated): when the declared configuration has no VPC identifier,
\* Validate returns an empty report and issues no cloud call, whatever the
\* credential resolver and the client factory answer.
C1_Original ==
    (Done /\ NoVPCDeclared) => (allErrs = <<>> /\ calls = <<>>)

\* C1 (amended): when the declared configuration has no VPC identifier, no
\* cloud call is ever issued; the report is empty if the credential resolver
\* and the client factory both succeed, and otherwise it is the single
\* Internal finding of the failed setup step.
C1_NoVPCNoCloudCall ==
    NoVPCDeclared =>
        /\ calls = <<>>
        /\ Done => IF SetupFailed
                   THEN Len(allErrs) = 1 /\ allErrs[1].Type = "Internal"
                   ELSE allErrs = <<>>

C1_Witness ==
    /\ Done
    /\ NoVPCDeclared
    /\ Len(setup) = 3
    /\ ~SetupFailed
    /\ allErrs = <<>>

----------------------------------------------------------------------------
(* C2 *)

\* C2: an attribute fetch that fails with a not-found error is the last query
\* of the call; the report then contains exactly one NotFound finding, at
\* networks.vpc.id with the VPC identifier as value, placed last; when the
\* failing fetch is the first one the report is that single finding.
C2_NotFoundStops ==
    \A i \in DOMAIN calls :
        (AttributeFetchFailed(i) /\ IsNotFoundError(calls[i].err)) =>
            /\ i = Len(calls)
            /\ Done
            /\ Cardinality(OfType(allErrs, "NotFound")) = 1
            /\ Len(allErrs) >= 1
            /\ allErrs[Len(allErrs)] =
                   [Type |-> "NotFound", Field |-> "networks.vpc.id",
                    BadValue |-> calls[i].vpcID, Detail |-> <<>>]
            /\ (i = 1 => Len(allErrs) = 1)

C2_Witness ==
    /\ Done
    /\ Len(calls) = 2
    /\ AttributeFetchFailed(2)
    /\ IsNotFoundError(calls[2].err)
    /\ calls[1].value = TRUE

----------------------------------------------------------------------------
(* C3 *)

\* C3 (as stated): if both attribute fetches succeed and return false, the
\* report contains exactly two Invalid findings, one per attribute, both at
\* networks.vpc.id, for every outcome of the gateway fetch.
C3_Original ==
    (Done /\ BothAttributesFalse) =>
        /\ Cardinality(OfType(allErrs, "Invalid")) = 2
        /\ \E i, j \in OfType(allErrs, "Invalid") :
              /\ allErrs[i] = AttributeInvalid("enableDnsSupport")
              /\ allErrs[j] = AttributeInvalid("enableDnsHostnames")

\* C3 (amended): if both attribute fetches succeed and return false, the
\* report starts with the Invalid finding for enableDnsSupport and then the
\* one for enableDnsHostnames, both at networks.vpc.id; these are the only
\* findings about attributes; the gateway fetch adds at most one finding, so
\* the report has two Invalid findings, or three when the gateway fetch
\* returns the empty identifier.
C3_BothFalse ==
    (Done /\ BothAttributesFalse) =>
        /\ Len(allErrs) \in {2, 3}
        /\ allErrs[1] = AttributeInvalid("enableDnsSupport")
        /\ allErrs[2] = AttributeInvalid("enableDnsHostnames")
        /\ \A i \in DOMAIN allErrs :
              (i > 2) => (Pieces(allErrs[i].Detail) \cap {"enableDnsSupport", "enableDnsHostnames"} = {})
        /\ Cardinality(OfType(allErrs, "Invalid")) =
              IF calls[3].err = Nil /\ calls[3].internetGatewayID = "" THEN 3 ELSE 2

C3_Witness ==
    /\ Done
    /\ BothAttributesFalse
    /\ calls[3].err = Nil
    /\ calls[3].internetGatewayID = ""
    /\ Len(allErrs) = 3

----------------------------------------------------------------------------
(* C4 *)

\* C4: when no fetch fails the report is, in this order, the Invalid finding
\* for enableDnsSupport if it is false, the one for enableDnsHostnames if it
\* is false, and the "no attached internet gateway found" finding if the
\* gateway identifier is empty; so it is empty exactly when both attributes
\* are true and the gateway identifier is not empty.
C4_ReportWithoutFailure ==
    (Done /\ NoFetchFailed) =>
        /\ allErrs =
              (IF calls[1].value THEN <<>> ELSE <<AttributeInvalid("enableDnsSupport")>>)
              \o (IF calls[2].value THEN <<>> ELSE <<AttributeInvalid("enableDnsHostnames")>>)
              \o (IF calls[3].internetGatewayID # "" THEN <<>> ELSE <<GatewayInvalid>>)
        /\ (allErrs = <<>>) <=>
              (calls[1].value /\ calls[2].value /\ calls[3].internetGatewayID # "")
        /\ (calls[1].value /\ calls[2].value /\ calls[3].internetGatewayID = "") =>
              allErrs = <<GatewayInvalid>>

C4_Witness ==
    /\ Done
    /\ NoFetchFailed
    /\ calls[1].value
    /\ calls[2].value
    /\ calls[3].internetGatewayID = ""
    /\ Len(allErrs) = 1

----------------------------------------------------------------------------
(* C5 *)

\* C5: an attribute fetch that fails with an error not classified as
\* not-found is the last query of the call and appends exactly one Internal
\* finding at networks.vpc.id whose detail names the attribute and the VPC
\* identifier; when it is the first fetch the report is that single finding.
C5_InternalStops ==
    \A i \in DOMAIN calls :
        (AttributeFetchFailed(i) /\ ~IsNotFoundError(calls[i].err)) =>
            /\ i = Len(calls)
            /\ Done
            /\ Cardinality(OfType(allErrs, "Internal")) = 1
            /\ Len(allErrs) >= 1
            /\ LET last == allErrs[Len(allErrs)]
               IN  /\ last.Type = "Internal"
                   /\ last.Field = "networks.vpc.id"
                   /\ {calls[i].attribute, calls[i].vpcID, calls[i].err} \subseteq Pieces(last.Detail)
                   /\ calls[i].attribute = IF i = 1 THEN "enableDnsSupport" ELSE "enableDnsHostnames"
            /\ (i = 1 => Len(allErrs) = 1)

C5_Witness ==
    /\ Done
    /\ Len(calls) = 1
    /\ AttributeFetchFailed(1)
    /\ ~IsNotFoundError(calls[1].err)
    /\ Len(allErrs) = 1

----------------------------------------------------------------------------
(* C6 *)

\* C6: the setup steps run in the order config extraction, credential
\* resolution, client construction; a step that fails is the last step run,
\* Validate returns at once with a report of exactly one Internal finding,
\* and no cloud query is issued, whether or not a VPC is declared.
C6_SetupFailureAborts ==
    /\ Len(setup) <= 3
    /\ \A i \in DOMAIN setup :
          setup[i].step = <<"InfrastructureConfigFromInfrastructure",
                            "GetCredentialsFromSecretRef", "NewClient">>[i]
    /\ \A i \in DOMAIN setup :
          setup[i].err # Nil =>
              /\ i = Len(setup)
              /\ Done
              /\ calls = <<>>
              /\ Len(allErrs) = 1
              /\ allErrs[1].Type = "Internal"
              /\ setup[i].err \in Pieces(allErrs[1].Detail)

C6_Witness ==
    /\ Done
    /\ Len(setup) = 2
    /\ setup[2].err # Nil
    /\ config # NilConfig
    /\ config.VPCID # Nil

----------------------------------------------------------------------------
(* C7 *)

\* C7: in every run of the network check the number of findings equals the
\* number of issued queries that returned an error or a value disagreeing
\* with the expectation, and the returned report is that list of findings.
C7_OneFindingPerFailedProbe ==
    /\ Len(vpcErrs) = Cardinality({i \in DOMAIN calls : ProbeFailed(i)})
    /\ (Done /\ calls # <<>>) => allErrs = vpcErrs

C7_Witness ==
    /\ Done
    /\ Len(calls) = 3
    /\ Cardinality({i \in DOMAIN calls : ProbeFailed(i)}) = 2
    /\ calls[1].value = FALSE
    /\ calls[3].err # Nil

----------------------------------------------------------------------------
(* C8 *)

\* C8: the queries of one call are issued in the order enableDnsSupport,
\* enableDnsHostnames, internet gateway, each at most once, at most three in
\* all, all for the declared VPC, and only the last query issued can have
\* returned an error.
C8_QueryOrder ==
    /\ Len(calls) <= 3
    /\ \A i \in DOMAIN calls :
          /\ calls[i].op = <<"GetVPCAttribute", "GetVPCAttribute", "GetVPCInternetGateway">>[i]
          /\ calls[i].attribute = <<"enableDnsSupport", "enableDnsHostnames", "">>[i]
          /\ calls[i].vpcID = config.VPCID
          /\ (i < Len(calls)) => calls[i].err = Nil
    /\ (calls # <<>> /\ calls[Len(calls)].err # Nil) => Done

C8_Witness ==
    /\ Done
    /\ Len(calls) = 3
    /\ calls[3].err = Nil

----------------------------------------------------------------------------
(* C9 *)

\* C9 (as stated): a NotFound finding is never accompanied by an Invalid
\* finding in a report returned by Validate.
C9_Original ==
    Done => ~(OfType(allErrs, "NotFound") # {} /\ OfType(allErrs, "Invalid") # {})

\* C9 (amended): a report has at most one NotFound finding and it is the
\* last finding.  It stands alone, except when the first attribute fetch
\* returned false and the second failed with a not-found error: the report
\* is then the Invalid finding for enableDnsSupport followed by the NotFound
\* finding.  A NotFound finding is never accompanied by an Invalid finding
\* for enableDnsHostnames or for the gateway, nor by an Internal finding.
C9_NotFoundLast ==
    (Done /\ OfType(allErrs, "NotFound") # {}) =>
        /\ OfType(allErrs, "NotFound") = {Len(allErrs)}
        /\ IF Len(calls) = 2 /\ calls[1].value = FALSE
           THEN allErrs = <<AttributeInvalid("enableDnsSupport"),
                            [Type |-> "NotFound", Field |-> "networks.vpc.id",
                             BadValue |-> config.VPCID, Detail |-> <<>>]>>
           ELSE Len(allErrs) = 1

C9_Witness ==
    /\ Done
    /\ Len(allErrs) = 2
    /\ allErrs[1].Type = "Invalid"
    /\ allErrs[2].Type = "NotFound"

----------------------------------------------------------------------------
(* C10 *)

\* C10: if both attribute fetches succeed and the gateway fetch fails, for
\* any reason including a not-found error, the report ends with exactly one
\* Internal finding at networks.vpc.id, preceded only by the Invalid findings
\* of the false attributes; it has no NotFound finding and no "no attached
\* internet gateway found" finding, and the call has returned.
C10_GatewayFailure ==
    (Len(calls) = 3 /\ calls[3].err # Nil) =>
        /\ Done
        /\ allErrs =
              (IF calls[1].value THEN <<>> ELSE <<AttributeInvalid("enableDnsSupport")>>)
              \o (IF calls[2].value THEN <<>> ELSE <<AttributeInvalid("enableDnsHostnames")>>)
              \o <<[Type |-> "Internal", Field |-> "networks.vpc.id", BadValue |-> Nil,
                    Detail |-> <<"could not get internet gateway for VPC ",
                                 config.VPCID, ": ", calls[3].err>>]>>
        /\ OfType(allErrs, "NotFound") = {}
        /\ WithDetail(allErrs, <<"no attached internet gateway found">>) = {}

C10_Witness ==
    /\ Done
    /\ Len(calls) = 3
    /\ IsNotFoundError(calls[3].err)
    /\ calls[1].value = FALSE
    /\ calls[2].value = TRUE

====
